---------------------------- MODULE Spec2Model ----------------------------
(***************************************************************************)
(* Model of app/core_processor.py: DocumentProcessor.process,              *)
(* DocumentProcessor.get_table_preview, DocumentProcessor.summarise and    *)
(* DocumentProcessor.export_report, of the variant of app/processor.py and *)
(* of SimpleAuthManager.verify_api_key of app/auth.py.                     *)
(*                                                                         *)
(* A text (a Python str) is a sequence of one-character strings, so that   *)
(* str.strip and str.casefold are computed character by character.  A      *)
(* document is a sequence of tables, a table a sequence of rows, a row a   *)
(* sequence of cell texts.                                                 *)
(***************************************************************************)
EXTENDS Integers, Sequences, FiniteSets, TLC

VARIABLES
    file,       \* what the file system holds at the source path
    call,       \* the call made on the processor, with its arguments
    outcome,    \* what the call returned or raised
    effects,    \* the accesses the call made to the file system, in order
    result,     \* the ProcessingResult the caller holds for export_report
    output_doc, \* the elements export_report added to its document, in order
    saved,      \* the documents written to the file system, in order
    history,    \* the calls a caller has made one after the other, in order
    pc,         \* where each concurrent caller stands in its call
    frames,     \* the local variables of the calls in progress
    db,         \* the users table of the authorisation database
    granted     \* per API key, the successes since the last daily reset

vars == <<file, call, outcome, effects, result, output_doc, saved,
          history, pc, frames, db, granted>>

\* What the calls of one caller on the processor leave alone: the callers
\* that run side by side and the authorisation database.
sharedVars == <<history, pc, frames, db, granted>>

---------------------------------------------------------------------------
(* Bounds of the model.                                                    *)

\* A document has at most this many tables, rows and cells in total.
MaxDocSize == 7
\* process is called with a column index in -1 .. MaxColumn.
MaxColumn == 1
\* get_table_preview is called with max_rows in 0 .. MaxPreviewRows.
MaxPreviewRows == 2
\* summarise is called with at most this many mentions.
MaxMentions == 5
\* A result given to export_report has at most this many mentions, tables,
\* rows and cells in total.
MaxResultSize == 5
\* export_report is called with minimum_mentions in 1 .. MaxMinimumMentions.
MaxMinimumMentions == 2
\* A caller aggregates the mentions it holds at most this many times.
MaxCalls == 3
\* This many callers use one DocumentProcessor side by side, one call each.
MaxCallers == 2
\* The requests to the authorisation API are served by this many threads.
MaxClients == 2
\* A user's daily_limit is in 1 .. MaxDailyLimit.
MaxDailyLimit == 2

---------------------------------------------------------------------------
(* Texts.                                                                  *)

\* The characters str.strip removes (the model's texts hold only the space).
Whitespace == {" ", "\t"}

RECURSIVE lstrip(_)
lstrip(s) ==
    IF s # <<>> /\ Head(s) \in Whitespace THEN lstrip(Tail(s)) ELSE s

RECURSIVE rstrip(_)
rstrip(s) ==
    IF s # <<>> /\ s[Len(s)] \in Whitespace
    THEN rstrip(SubSeq(s, 1, Len(s) - 1))
    ELSE s

\* str.strip(): the text without its leading and trailing whitespace.
strip(s) == rstrip(lstrip(s))

\* The texts a cell of a source document holds: an empty cell, a
\* whitespace-only cell, a name with surrounding whitespace, a name with
\* nothing to trim.
SourceTexts == { <<>>, <<" ">>, <<" ", "a", " ">>, <<"b">> }

---------------------------------------------------------------------------
(* Documents.                                                              *)

\* A document with one more empty table, row or cell than d.
AddTable(d) == Append(d, <<>>)
AddRow(d) == [d EXCEPT ![Len(d)] = Append(@, <<>>)]
AddCell(d, t) ==
    [d EXCEPT ![Len(d)] = [@ EXCEPT ![Len(@)] = Append(@, t)]]

\* The documents made of exactly n tables, rows and cells.
RECURSIVE DocsOfSize(_)
DocsOfSize(n) ==
    IF n = 0 THEN { <<>> }
    ELSE LET prev == DocsOfSize(n - 1)
             open == { d \in prev : d # <<>> }
             rowed == { d \in open : d[Len(d)] # <<>> }
         IN { AddTable(d) : d \in prev }
            \cup { AddRow(d) : d \in open }
            \cup { AddCell(d, t) : d \in rowed, t \in SourceTexts }

Documents == UNION { DocsOfSize(n) : n \in 0 .. MaxDocSize }

\* The exceptions docx.Document raises on a file it cannot open or parse.
LoaderErrors == { "PackageNotFoundError", "BadZipFile" }

\* What the source path holds: nothing, a file the loader rejects, a document.
FileStates ==
    { [kind |-> "missing", cause |-> "", tables |-> <<>>] }
    \cup { [kind |-> "corrupt", cause |-> e, tables |-> <<>>] : e \in LoaderErrors }
    \cup { [kind |-> "docx", cause |-> "", tables |-> d] : d \in Documents }

ColumnIndices == -1 .. MaxColumn
PreviewRows == 0 .. MaxPreviewRows

---------------------------------------------------------------------------
(* Outcomes of a call.                                                     *)

Returned(value, fx) ==
    [raised |-> "", message |-> [format |-> ""], value |-> value,
     effects |-> fx]

Raised(exc, message, fx) ==
    [raised |-> exc, message |-> message, value |-> <<>>, effects |-> fx]

---------------------------------------------------------------------------
(* DocumentProcessor.process                                               *)

\* A slip of cell_texts_of: the texts are taken as the cells hold them.
cell_texts_untrimmed(row) == row

\* cell_texts = [cell.text.strip() for cell in row.cells]
cell_texts_of(row) == [j \in 1 .. Len(row) |-> strip(row[j])]

\* A slip of has_character: the cell's emptiness is not tested.
has_character_any_text(cell_texts, column_index) ==
    Len(cell_texts) > column_index

\* len(cell_texts) > column_index and cell_texts[column_index]
\* (column_index is zero-based, sequences are one-based)
has_character(cell_texts, column_index) ==
    /\ Len(cell_texts) > column_index
    /\ cell_texts[column_index + 1] # <<>>

\* The body of "for row in table.rows", from row i on: acc holds table_rows
\* and characters.
RECURSIVE row_loop(_, _, _, _)
row_loop(rows, column_index, i, acc) ==
    IF i > Len(rows) THEN acc
    ELSE LET cell_texts == cell_texts_of(rows[i])
             character_name == cell_texts[column_index + 1]
         IN row_loop(rows, column_index, i + 1,
                [table_rows |-> Append(acc.table_rows, cell_texts),
                 characters |->
                    IF has_character(cell_texts, column_index)
                    THEN Append(acc.characters, character_name)
                    ELSE acc.characters])

\* A slip of append_table: a table without rows gets no snapshot.
append_table_with_rows(tables, table_rows) ==
    IF table_rows = <<>> THEN tables
    ELSE Append(tables, [rows |-> table_rows])

\* tables.append(TableData(rows=table_rows))
append_table(tables, table_rows) == Append(tables, [rows |-> table_rows])

\* The body of "for table in document.tables", from table t on: acc holds
\* characters and tables.
RECURSIVE table_loop(_, _, _, _)
table_loop(doc, column_index, t, acc) ==
    IF t > Len(doc) THEN acc
    ELSE LET r == row_loop(doc[t], column_index, 1,
                     [table_rows |-> <<>>, characters |-> acc.characters])
         IN table_loop(doc, column_index, t + 1,
                [characters |-> r.characters,
                 tables |-> append_table(acc.tables, r.table_rows)])

\* A slip of human_column: the zero-based index is reported.
human_column_zero_based(column_index) == column_index

\* human_column = column_index + 1
human_column(column_index) == column_index + 1

NoCharactersFormat == "No characters found in column #{human_column} in any table. Please check the column index and document structure."
FailedToReadFormat == "Failed to read document: {e}"
NotFoundFormat == "Document not found: {source}"
NegativeColumnFormat == "Column index cannot be negative"

no_characters_message(column_index) ==
    [format |-> NoCharactersFormat,
     human_column |-> human_column(column_index)]

\* A slip of load_failure: the loader's exception propagates as it is.
load_failure_raw(e, fx) == Raised(e, [format |-> "{e}", e |-> e], fx)

\* except Exception as e: raise ValueError(f"Failed to read document: {e}")
load_failure(e, fx) ==
    Raised("ValueError", [format |-> FailedToReadFormat, e |-> e], fx)

\* The traversal and the final check of process, on the loaded document.
extract(doc, column_index, fx) ==
    LET r == table_loop(doc, column_index, 1,
                 [characters |-> <<>>, tables |-> <<>>])
    IN IF r.characters = <<>>
       THEN Raised("ValueError", no_characters_message(column_index), fx)
       ELSE Returned([characters |-> r.characters, tables |-> r.tables], fx)

\* process(source, column_index) on a source path holding f.
process(f, column_index) ==
    IF f.kind = "missing"
    THEN Raised("FileNotFoundError", [format |-> NotFoundFormat],
                << "exists" >>)
    ELSE IF column_index < 0
    THEN Raised("ValueError", [format |-> NegativeColumnFormat],
                << "exists" >>)
    ELSE IF f.kind = "corrupt"
    THEN load_failure(f.cause, << "exists", "open" >>)
    ELSE extract(f.tables, column_index, << "exists", "open" >>)

---------------------------------------------------------------------------
(* DocumentProcessor.get_table_preview                                     *)

\* seq[:stop], Python's slice from the start
slice_to(seq, stop) ==
    LET n == IF stop >= 0
             THEN (IF stop < Len(seq) THEN stop ELSE Len(seq))
             ELSE (IF Len(seq) + stop > 0 THEN Len(seq) + stop ELSE 0)
    IN SubSeq(seq, 1, n)

\* A slip of table_preview: every row of the table is taken.
table_preview_every_row(rows, max_rows) ==
    [i \in 1 .. Len(rows) |-> cell_texts_of(rows[i])]

\* table_preview of one table: the stripped cells of table.rows[:max_rows]
table_preview(rows, max_rows) ==
    LET kept == slice_to(rows, max_rows)
    IN [i \in 1 .. Len(kept) |-> cell_texts_of(kept[i])]

\* A slip of get_table_preview: the path is opened without the exists test.
get_table_preview_unguarded(f, max_rows) ==
    IF f.kind = "missing"
    THEN load_failure("PackageNotFoundError", << "open" >>)
    ELSE IF f.kind = "corrupt"
    THEN load_failure(f.cause, << "open" >>)
    ELSE Returned([t \in 1 .. Len(f.tables) |->
                      table_preview(f.tables[t], max_rows)],
                  << "open" >>)

\* get_table_preview(source, max_rows) on a source path holding f.
get_table_preview(f, max_rows) ==
    IF f.kind = "missing"
    THEN Raised("FileNotFoundError", [format |-> NotFoundFormat],
                << "exists" >>)
    ELSE IF f.kind = "corrupt"
    THEN load_failure(f.cause, << "exists", "open" >>)
    ELSE Returned([t \in 1 .. Len(f.tables) |->
                      table_preview(f.tables[t], max_rows)],
                  << "exists", "open" >>)

---------------------------------------------------------------------------
(* DocumentProcessor.summarise                                             *)

\* The mentions summarise is given: the empty string, a whitespace-only
\* string, and names of which some differ only in case.
MentionTexts == { <<>>, <<" ">>, <<"a">>, <<"A">>, <<"b">>, <<"B">> }

MentionSeqs == UNION { [1 .. n -> MentionTexts] : n \in 0 .. MaxMentions }

\* str.casefold(), one character at a time.
fold_char(c) ==
    CASE c = "A" -> "a"
      [] c = "B" -> "b"
      [] OTHER -> c

casefold(s) == [i \in 1 .. Len(s) |-> fold_char(s[i])]

CharacterStat(name, count) == [name |-> name, count |-> count]

\* A Counter and a dict are sequences of entries in insertion order, the
\* order in which Python iterates them.
has_key(entries, key) == \E i \in 1 .. Len(entries) : entries[i].key = key

\* counts[key] += 1
counter_add(counts, key) ==
    IF has_key(counts, key)
    THEN [i \in 1 .. Len(counts) |->
             IF counts[i].key = key
             THEN [counts[i] EXCEPT !.count = @ + 1]
             ELSE counts[i]]
    ELSE Append(counts, [key |-> key, count |-> 1])

\* display_names.setdefault(key, name)
setdefault(display_names, key, name) ==
    IF has_key(display_names, key) THEN display_names
    ELSE Append(display_names, [key |-> key, name |-> name])

\* display_names[key]
display_name(display_names, key) ==
    (CHOOSE e \in { display_names[i] : i \in 1 .. Len(display_names) } :
        e.key = key).name

\* A slip of insert_by_count: item goes before the items of equal count.
insert_before_equal(sorted, item) ==
    LET n == Cardinality({ i \in 1 .. Len(sorted) :
                              sorted[i].count > item.count })
    IN SubSeq(sorted, 1, n) \o << item >> \o SubSeq(sorted, n + 1, Len(sorted))

\* A slip of insert_by_count: the items are sorted by increasing count.
insert_by_increasing_count(sorted, item) ==
    LET n == Cardinality({ i \in 1 .. Len(sorted) :
                              sorted[i].count <= item.count })
    IN SubSeq(sorted, 1, n) \o << item >> \o SubSeq(sorted, n + 1, Len(sorted))

\* sorted(items, key=count, reverse=True) keeps items of equal count in their
\* original order: item goes behind every item whose count is not smaller.
insert_by_count(sorted, item) ==
    LET n == Cardinality({ i \in 1 .. Len(sorted) :
                              sorted[i].count >= item.count })
    IN SubSeq(sorted, 1, n) \o << item >> \o SubSeq(sorted, n + 1, Len(sorted))

RECURSIVE sort_from(_, _, _)
sort_from(items, i, sorted) ==
    IF i > Len(items) THEN sorted
    ELSE sort_from(items, i + 1, insert_by_count(sorted, items[i]))

\* Counter.most_common(): the entries by decreasing count, stable.
most_common(counts) == sort_from(counts, 1, <<>>)

\* "for name in characters" of the ignore_case branch, from mention i on.
RECURSIVE fold_loop(_, _, _)
fold_loop(characters, i, acc) ==
    IF i > Len(characters) THEN acc
    ELSE LET name == characters[i]
             key == casefold(name)
         IN IF name = <<>>
            THEN fold_loop(characters, i + 1, acc)
            ELSE fold_loop(characters, i + 1,
                    [counts |-> counter_add(acc.counts, key),
                     display_names |->
                        setdefault(acc.display_names, key, name)])

\* Counter(char for char in characters if char), from mention i on.
RECURSIVE count_loop(_, _, _)
count_loop(characters, i, counts) ==
    IF i > Len(characters) THEN counts
    ELSE count_loop(characters, i + 1,
            IF characters[i] = <<>> THEN counts
            ELSE counter_add(counts, characters[i]))

\* A slip of summarise: with ignore_case the exact strings are counted.
summarise_exact_strings(characters, ignore_case) ==
    LET common == most_common(count_loop(characters, 1, <<>>))
    IN [i \in 1 .. Len(common) |->
           CharacterStat(common[i].key, common[i].count)]

\* summarise(characters, ignore_case)
summarise(characters, ignore_case) ==
    IF ignore_case
    THEN LET r == fold_loop(characters, 1,
                      [counts |-> <<>>, display_names |-> <<>>])
             common == most_common(r.counts)
         IN [i \in 1 .. Len(common) |->
                CharacterStat(display_name(r.display_names, common[i].key),
                              common[i].count)]
    ELSE LET common == most_common(count_loop(characters, 1, <<>>))
         IN [i \in 1 .. Len(common) |->
                CharacterStat(common[i].key, common[i].count)]

\* A slip of summarise_call: an empty list of mentions is refused, as
\* process refuses a document without mentions.
summarise_call_fail_fast(characters, ignore_case) ==
    IF characters = <<>>
    THEN Raised("ValueError", [format |-> "No characters"], <<>>)
    ELSE Returned(summarise(characters, ignore_case), <<>>)

\* A call of summarise: it raises nothing and returns the list of stats.
summarise_call(characters, ignore_case) ==
    Returned(summarise(characters, ignore_case), <<>>)

---------------------------------------------------------------------------
(* The DocumentProcessor of app/processor.py: process and summarise.       *)
(* Its messages are in Russian; they are written here in Latin letters.    *)

ProcessorNegativeColumnFormat == "Nomer stolbtsa ne mozhet byt' otritsatel'nym"
ProcessorNoCharactersFormat == "Ne udalos' naiti personazhei v ukazannom stolbtse <U+2116>{human_column} ni v odnoi tablitse"

\* Document(source) is called without a test of the path and outside any
\* try: what the loader raises reaches the caller.
processor_load_failure(e, fx) == Raised(e, [format |-> "{e}", e |-> e], fx)

\* The loops of process are those of app/core_processor.py, line by line.
processor_extract(doc, column_index, fx) ==
    LET r == table_loop(doc, column_index, 1,
                 [characters |-> <<>>, tables |-> <<>>])
    IN IF r.characters = <<>>
       THEN Raised("ValueError",
                   [format |-> ProcessorNoCharactersFormat,
                    human_column |-> column_index + 1], fx)
       ELSE Returned([characters |-> r.characters, tables |-> r.tables], fx)

\* process(source, column_index) of app/processor.py.
processor_process(f, column_index) ==
    IF column_index < 0
    THEN Raised("ValueError", [format |-> ProcessorNegativeColumnFormat], <<>>)
    ELSE IF f.kind = "missing"
    THEN processor_load_failure("PackageNotFoundError", << "open" >>)
    ELSE IF f.kind = "corrupt"
    THEN processor_load_failure(f.cause, << "open" >>)
    ELSE processor_extract(f.tables, column_index, << "open" >>)

\* "for name in characters" of the ignore_case branch: no name is skipped.
RECURSIVE processor_fold_loop(_, _, _)
processor_fold_loop(characters, i, acc) ==
    IF i > Len(characters) THEN acc
    ELSE LET name == characters[i]
             key == casefold(name)
         IN processor_fold_loop(characters, i + 1,
                [counts |-> counter_add(acc.counts, key),
                 display_names |-> setdefault(acc.display_names, key, name)])

\* Counter(characters), from mention i on.
RECURSIVE processor_count_loop(_, _, _)
processor_count_loop(characters, i, counts) ==
    IF i > Len(characters) THEN counts
    ELSE processor_count_loop(characters, i + 1,
            counter_add(counts, characters[i]))

\* summarise(characters, ignore_case) of app/processor.py.
processor_summarise(characters, ignore_case) ==
    IF ignore_case
    THEN LET r == processor_fold_loop(characters, 1,
                      [counts |-> <<>>, display_names |-> <<>>])
             common == most_common(r.counts)
         IN [i \in 1 .. Len(common) |->
                CharacterStat(display_name(r.display_names, common[i].key),
                              common[i].count)]
    ELSE LET common == most_common(processor_count_loop(characters, 1, <<>>))
         IN [i \in 1 .. Len(common) |->
                CharacterStat(common[i].key, common[i].count)]

processor_summarise_call(characters, ignore_case) ==
    Returned(processor_summarise(characters, ignore_case), <<>>)

---------------------------------------------------------------------------
(* DocumentProcessor.export_report                                         *)

\* The names and the cell texts of the results given to export_report.
ReportNames == { <<"a">>, <<"A">>, <<"b">> }
SnapshotTexts == { <<"a">>, <<"b">> }

\* A result with one more mention, empty TableData, empty row or cell.
AddMention(r, m) == [r EXCEPT !.characters = Append(@, m)]
AddTableData(r) == [r EXCEPT !.tables = Append(@, [rows |-> <<>>])]
AddSnapshotRow(r) ==
    [r EXCEPT !.tables[Len(r.tables)].rows = Append(@, <<>>)]
AddSnapshotCell(r, t) ==
    [r EXCEPT !.tables[Len(r.tables)].rows =
        [@ EXCEPT ![Len(@)] = Append(@, t)]]

\* The results made of exactly n mentions, tables, rows and cells.
RECURSIVE ResultsOfSize(_)
ResultsOfSize(n) ==
    IF n = 0 THEN { [characters |-> <<>>, tables |-> <<>>] }
    ELSE LET prev == ResultsOfSize(n - 1)
             bare == { r \in prev : r.tables = <<>> }
             open == { r \in prev : r.tables # <<>> }
             rowed == { r \in open : r.tables[Len(r.tables)].rows # <<>> }
         IN { AddMention(r, m) : r \in bare, m \in ReportNames }
            \cup { AddTableData(r) : r \in prev }
            \cup { AddSnapshotRow(r) : r \in open }
            \cup { AddSnapshotCell(r, t) : r \in rowed, t \in SnapshotTexts }

Results == UNION { ResultsOfSize(n) : n \in 0 .. MaxResultSize }

MinimumMentions == 1 .. MaxMinimumMentions

\* The output paths: two the process may write, one in a directory it may
\* not write, one in a directory that does not exist.
OutputPaths ==
    { "report.docx", "copy.docx", "readonly/report.docx",
      "missing/report.docx" }

\* The OSError output_doc.save(output_path) raises, "" when it writes.
save_error(output_path) ==
    CASE output_path = "readonly/report.docx" -> "PermissionError"
      [] output_path = "missing/report.docx" -> "FileNotFoundError"
      [] OTHER -> ""

\* The elements of a document: add_heading, add_paragraph (a paragraph of
\* runs), add_table.  A text built by an f-string is its format and its
\* arguments.
Heading(text, level) == [kind |-> "heading", level |-> level, text |-> text]
Run(text, bold) == [text |-> text, bold |-> bold]
Paragraph(runs) == [kind |-> "paragraph", runs |-> runs]

\* A slip of filter_stats: the stats of exactly minimum_mentions are dropped.
filter_stats_above(all_stats, minimum_mentions) ==
    SelectSeq(all_stats, LAMBDA stat : stat.count > minimum_mentions)

\* [stat for stat in self.summarise(...) if stat.count >= minimum_mentions]
filter_stats(all_stats, minimum_mentions) ==
    SelectSeq(all_stats, LAMBDA stat : stat.count >= minimum_mentions)

\* output_doc.add_heading("Character Frequency Analysis", level=1)
title_section ==
    << Heading([format |-> "Character Frequency Analysis"], 1) >>

SummaryFormat == "Total characters found: {len(result.characters)}\nUnique characters: {len(stats)}\nCharacters with {minimum_mentions}+ mentions: {len(stats)}"

\* summary_text: the three lines, each with the number the code puts in it.
summary_text(res, stats, minimum_mentions) ==
    [format |-> SummaryFormat,
     total |-> Len(res.characters),
     unique |-> Len(stats),
     minimum_mentions |-> minimum_mentions,
     passing |-> Len(stats)]

\* add_heading("Summary", level=2); add_paragraph(summary_text)
summary_section(res, stats, minimum_mentions) ==
    << Heading([format |-> "Summary"], 2),
       Paragraph(<< Run(summary_text(res, stats, minimum_mentions), FALSE) >>) >>

\* U+2014 is the em dash of the source, written here in ASCII.
StatNameFormat == "{stat.name}"
StatCountFormat == " <U+2014> {stat.count} mentions"
NoticeFormat == "No characters meet the minimum frequency criteria."

\* paragraph.add_run(f"{stat.name}").bold = True
\* paragraph.add_run(f" -- {stat.count} mentions")
stat_paragraph(stat) ==
    Paragraph(<< Run([format |-> StatNameFormat, name |-> stat.name], TRUE),
                 Run([format |-> StatCountFormat, count |-> stat.count],
                     FALSE) >>)

notice_paragraph == Paragraph(<< Run([format |-> NoticeFormat], FALSE) >>)

\* A slip of frequency_section: nothing is written when no stat is left.
frequency_section_blank(stats) ==
    << Heading([format |-> "Characters by Frequency"], 2) >>
    \o [i \in 1 .. Len(stats) |-> stat_paragraph(stats[i])]

\* add_heading("Characters by Frequency", level=2), then the stats or the
\* notice
frequency_section(stats) ==
    << Heading([format |-> "Characters by Frequency"], 2) >>
    \o (IF stats # <<>>
        THEN [i \in 1 .. Len(stats) |-> stat_paragraph(stats[i])]
        ELSE << notice_paragraph >>)

\* A slip of max_cols: the width of the first row.
max_cols_first_row(rows) == IF rows # <<>> THEN Len(rows[1]) ELSE 0

\* max(len(row) for row in table.rows) if table.rows else 0
max_cols(rows) ==
    IF rows # <<>>
    THEN CHOOSE w \in { Len(rows[i]) : i \in 1 .. Len(rows) } :
            \A i \in 1 .. Len(rows) : Len(rows[i]) <= w
    ELSE 0

\* add_table(rows=len(table.rows), cols=max_cols) with style "Table Grid",
\* its cells empty, then cells[j].text = str(cell) for the cells of each row
\* that the new table has (j < len(new_table.rows[i].cells)).
new_table(rows, cols) ==
    [kind |-> "table", style |-> "Table Grid",
     rows |-> Len(rows), cols |-> cols,
     cells |-> [i \in 1 .. Len(rows) |->
                  [j \in 1 .. cols |->
                      IF j <= Len(rows[i]) THEN rows[i][j] ELSE <<>>]]]

\* A slip of table_elements: the label is written for a table without rows.
table_elements_always_labelled(idx, table) ==
    << Heading([format |-> "Table {idx}", idx |-> idx], 3) >>
    \o (IF table.rows # <<>> /\ max_cols(table.rows) > 0
        THEN << new_table(table.rows, max_cols(table.rows)) >>
        ELSE <<>>)

\* The body of "for idx, table in enumerate(result.tables, start=1)".
table_elements(idx, table) ==
    IF table.rows = <<>> THEN <<>>
    ELSE << Heading([format |-> "Table {idx}", idx |-> idx], 3) >>
         \o (IF max_cols(table.rows) > 0
             THEN << new_table(table.rows, max_cols(table.rows)) >>
             ELSE <<>>)

RECURSIVE tables_loop(_, _)
tables_loop(tables, idx) ==
    IF idx > Len(tables) THEN <<>>
    ELSE table_elements(idx, tables[idx]) \o tables_loop(tables, idx + 1)

\* if result.tables: add_heading("Original Tables", level=2), then the loop
tables_section(tables) ==
    IF tables = <<>> THEN <<>>
    ELSE << Heading([format |-> "Original Tables"], 2) >>
         \o tables_loop(tables, 1)

\* A slip of build_report: the tables are written before the statistics.
build_report_tables_first(res, stats, minimum_mentions) ==
    title_section
    \o tables_section(res.tables)
    \o summary_section(res, stats, minimum_mentions)
    \o frequency_section(stats)

\* The elements export_report adds to output_doc, in the order of the calls.
build_report(res, stats, minimum_mentions) ==
    title_section
    \o summary_section(res, stats, minimum_mentions)
    \o frequency_section(stats)
    \o tables_section(res.tables)

\* What a call of export_report leaves: the document it built, the files it
\* wrote and what it returned or raised.
Exported(doc, written, out) ==
    [output_doc |-> doc, saved |-> written, outcome |-> out]

\* output_doc.save(output_path) raising: the OSError reaches the caller.
save_failure(err, output_path) ==
    Raised(err, [format |-> "{strerror}: {filename}",
                 filename |-> output_path], << "save" >>)

\* A slip of export_report: the document is saved before the tables are
\* added to it.
export_report_saves_early(res, output_path, minimum_mentions, ignore_case) ==
    LET stats == filter_stats(summarise(res.characters, ignore_case),
                              minimum_mentions)
        early == title_section
                 \o summary_section(res, stats, minimum_mentions)
                 \o frequency_section(stats)
        doc == build_report(res, stats, minimum_mentions)
        err == save_error(output_path)
    IN IF err = ""
       THEN Exported(doc, << [path |-> output_path, document |-> early] >>,
                     Returned(output_path, << "save" >>))
       ELSE Exported(early, <<>>, save_failure(err, output_path))

\* A slip of export_report: a failed save is caught and the path returned.
export_report_swallows(res, output_path, minimum_mentions, ignore_case) ==
    LET stats == filter_stats(summarise(res.characters, ignore_case),
                              minimum_mentions)
        doc == build_report(res, stats, minimum_mentions)
        err == save_error(output_path)
    IN Exported(doc,
                IF err = ""
                THEN << [path |-> output_path, document |-> doc] >>
                ELSE <<>>,
                Returned(output_path, << "save" >>))

\* export_report(result, output_path, minimum_mentions, ignore_case)
export_report(res, output_path, minimum_mentions, ignore_case) ==
    LET stats == filter_stats(summarise(res.characters, ignore_case),
                              minimum_mentions)
        doc == build_report(res, stats, minimum_mentions)
        err == save_error(output_path)
    IN IF err = ""
       THEN Exported(doc, << [path |-> output_path, document |-> doc] >>,
                     Returned(output_path, << "save" >>))
       ELSE Exported(doc, <<>>, save_failure(err, output_path))

---------------------------------------------------------------------------
(* The calls on a source path: process and get_table_preview.              *)

Idle == [op |-> "idle"]

\* No caller runs side by side with the call and no database is open.
NothingShared ==
    /\ history = <<>>
    /\ pc = <<>>
    /\ frames = <<>>
    /\ db = <<>>
    /\ granted = <<>>

NoOutcome == Returned(<<>>, <<>>)

NoResult == [characters |-> <<>>, tables |-> <<>>]

InitExtract ==
    /\ file \in FileStates
    /\ call = Idle
    /\ outcome = NoOutcome
    /\ effects = <<>>
    /\ result = NoResult
    /\ output_doc = <<>>
    /\ saved = <<>>
    /\ NothingShared

\* A slip of Process: the cells of the source are trimmed in place.
Process_trims_source ==
    /\ call = Idle
    /\ \E column_index \in ColumnIndices :
          LET out == process(file, column_index)
          IN /\ call' = [op |-> "process", column_index |-> column_index]
             /\ outcome' = out
             /\ effects' = out.effects
    /\ file' = [file EXCEPT !.tables =
                   [t \in 1 .. Len(@) |->
                       [r \in 1 .. Len(@[t]) |-> cell_texts_of(@[t][r])]]]
    /\ UNCHANGED <<result, output_doc, saved>>
    /\ UNCHANGED sharedVars

Process ==
    /\ call = Idle
    /\ \E column_index \in ColumnIndices :
          LET out == process(file, column_index)
          IN /\ call' = [op |-> "process", column_index |-> column_index]
             /\ outcome' = out
             /\ effects' = out.effects
    /\ UNCHANGED <<file, result, output_doc, saved>>
    /\ UNCHANGED sharedVars

GetTablePreview ==
    /\ call = Idle
    /\ \E max_rows \in PreviewRows :
          LET out == get_table_preview(file, max_rows)
          IN /\ call' = [op |-> "get_table_preview", max_rows |-> max_rows]
             /\ outcome' = out
             /\ effects' = out.effects
    /\ UNCHANGED <<file, result, output_doc, saved>>
    /\ UNCHANGED sharedVars

\* The caller repeats its call of process, with the same source and column
\* index, on the DocumentProcessor of app/processor.py.
ProcessorProcess ==
    /\ call.op = "process"
    /\ history = <<>>
    /\ history' = << [module |-> "app.processor",
                      outcome |-> processor_process(file, call.column_index)] >>
    /\ UNCHANGED <<file, call, outcome, effects, result, output_doc, saved,
                   pc, frames, db, granted>>

NextExtract == Process \/ GetTablePreview \/ ProcessorProcess

SpecExtract == InitExtract /\ [][NextExtract]_vars

---------------------------------------------------------------------------
(* The calls of summarise.                                                 *)

NoFile == [kind |-> "missing", cause |-> "", tables |-> <<>>]

InitSummarise ==
    /\ file = NoFile
    /\ call = Idle
    /\ outcome = NoOutcome
    /\ effects = <<>>
    /\ result = NoResult
    /\ output_doc = <<>>
    /\ saved = <<>>
    /\ NothingShared

Summarise ==
    /\ call = Idle
    /\ \E characters \in MentionSeqs, ignore_case \in BOOLEAN :
          /\ call' = [op |-> "summarise", characters |-> characters,
                      ignore_case |-> ignore_case]
          /\ outcome' = summarise_call(characters, ignore_case)
    /\ UNCHANGED <<file, effects, result, output_doc, saved>>
    /\ UNCHANGED sharedVars

\* The caller repeats its call of summarise, with the same mentions and
\* case mode, on the DocumentProcessor of app/processor.py.
ProcessorSummarise ==
    /\ call.op = "summarise"
    /\ history = <<>>
    /\ history' = << [module |-> "app.processor",
                      outcome |-> processor_summarise_call(call.characters,
                                                           call.ignore_case)] >>
    /\ UNCHANGED <<file, call, outcome, effects, result, output_doc, saved,
                   pc, frames, db, granted>>

NextSummarise == Summarise \/ ProcessorSummarise

SpecSummarise == InitSummarise /\ [][NextSummarise]_vars

---------------------------------------------------------------------------
(* A caller that holds the mentions of a result and aggregates them again  *)
(* and again, with either case setting.                                    *)

\* The results without tables: the mentions alone.
MentionResults == { r \in Results : r.tables = <<>> }

InitResummarise ==
    /\ file = NoFile
    /\ call = Idle
    /\ outcome = NoOutcome
    /\ effects = <<>>
    /\ result \in MentionResults
    /\ output_doc = <<>>
    /\ saved = <<>>
    /\ NothingShared

\* A slip of Resummarise: the call uses the mentions up, as it would a
\* generator, and leaves the caller's list empty.
Resummarise_drains_mentions ==
    /\ Len(history) < MaxCalls
    /\ \E ignore_case \in BOOLEAN :
          LET out == summarise_call(result.characters, ignore_case)
          IN /\ call' = [op |-> "summarise", characters |-> result.characters,
                          ignore_case |-> ignore_case]
             /\ outcome' = out
             /\ history' = Append(history, [ignore_case |-> ignore_case,
                                            outcome |-> out])
    /\ result' = [result EXCEPT !.characters = <<>>]
    /\ UNCHANGED <<file, effects, output_doc, saved, pc, frames, db, granted>>

\* summarise(result.characters, ignore_case): the list is iterated, the
\* counters are local to the call, and the list is left as it was.
Resummarise ==
    /\ Len(history) < MaxCalls
    /\ \E ignore_case \in BOOLEAN :
          LET out == summarise_call(result.characters, ignore_case)
          IN /\ call' = [op |-> "summarise", characters |-> result.characters,
                          ignore_case |-> ignore_case]
             /\ outcome' = out
             /\ history' = Append(history, [ignore_case |-> ignore_case,
                                            outcome |-> out])
    /\ UNCHANGED <<file, effects, result, output_doc, saved,
                   pc, frames, db, granted>>

NextResummarise == Resummarise

SpecResummarise == InitResummarise /\ [][NextResummarise]_vars

---------------------------------------------------------------------------
(* The calls of export_report.                                             *)

InitReport ==
    /\ file = NoFile
    /\ call = Idle
    /\ outcome = NoOutcome
    /\ effects = <<>>
    /\ result \in Results
    /\ output_doc = <<>>
    /\ saved = <<>>
    /\ NothingShared

ExportReport ==
    /\ call = Idle
    /\ \E output_path \in OutputPaths, minimum_mentions \in MinimumMentions,
          ignore_case \in BOOLEAN :
          LET done == export_report(result, output_path, minimum_mentions,
                                    ignore_case)
          IN /\ call' = [op |-> "export_report", output_path |-> output_path,
                          minimum_mentions |-> minimum_mentions,
                          ignore_case |-> ignore_case]
             /\ outcome' = done.outcome
             /\ effects' = done.outcome.effects
             /\ output_doc' = done.output_doc
             /\ saved' = saved \o done.saved
    /\ UNCHANGED <<file, result>>
    /\ UNCHANGED sharedVars

NextReport == ExportReport

SpecReport == InitReport /\ [][NextReport]_vars

---------------------------------------------------------------------------
(* Callers that share one DocumentProcessor (the module-level processor of *)
(* app/web_interface.py).  Each caller makes one call, on its own document *)
(* and output path; a call advances by one loop iteration at a time and    *)
(* the other callers run in between.  call and outcome hold, per caller,   *)
(* the call and what it returned; frames holds the local variables of the  *)
(* calls in progress; history holds, per caller, whether another caller    *)
(* took a step while its call was in progress.                             *)

Callers == 1 .. MaxCallers

\* The documents of the callers: none at the path, two tables of one row
\* each, one table of two rows.
SharedFiles ==
    { NoFile,
      [kind |-> "docx", cause |-> "",
       tables |-> << << << <<" ", "a", " ">> >> >>,
                     << << <<"b">>, <<" ", "a", " ">> >> >> >>],
      [kind |-> "docx", cause |-> "",
       tables |-> << << << <<"b">> >>, << <<>> >> >> >>] }

SharedColumns == { 0, 1 }
SharedMaxRows == { 1 }
SharedMentions == { << <<"a">>, <<>>, <<"A">> >> }
SharedResults ==
    { [characters |-> << <<"a">>, <<"A">>, <<"a">> >>,
       tables |-> << [rows |-> << << <<"a">> >>, << <<"a">>, <<"b">> >> >>],
                     [rows |-> <<>>] >>] }
SharedMinimums == { 1, 2 }

\* Every caller writes to a path of its own.
OutputPathOf(c) ==
    CASE c = 1 -> "report.docx"
      [] c = 2 -> "copy.docx"
      [] OTHER -> "readonly/report.docx"

\* The local variables of a call that has just begun.
EmptyFrame ==
    [idx |-> 1, characters |-> <<>>, tables |-> <<>>,
     counts |-> <<>>, display_names |-> <<>>, previews |-> <<>>,
     output_doc |-> <<>>]

\* A slip of frame_of: the variables of the calls are attributes of the
\* processor, one set for all callers.
frame_of_processor(c) == 1

\* The variables of a call are locals of the method: each call has its own.
frame_of(c) == c

InCall(c) == pc[c] \notin { "idle", "done" }

\* A step of caller c is seen by the callers whose call is in progress.
Overlap(c) ==
    history' = [d \in Callers |-> history[d] \/ (d # c /\ InCall(d))]

sharedFrame == <<file, effects, result, output_doc, db, granted>>

InitShared ==
    /\ file = NoFile
    /\ call = [c \in Callers |-> Idle]
    /\ outcome = [c \in Callers |-> NoOutcome]
    /\ effects = <<>>
    /\ result = NoResult
    /\ output_doc = <<>>
    /\ saved = <<>>
    /\ history = [c \in Callers |-> FALSE]
    /\ pc = [c \in Callers |-> "idle"]
    /\ frames = [c \in Callers |-> EmptyFrame]
    /\ db = <<>>
    /\ granted = <<>>

\* The call of caller c begins: its arguments are bound and it goes on at
\* the given place with fresh locals.
Enter(c, args, place) ==
    /\ call' = [call EXCEPT ![c] = args]
    /\ pc' = [pc EXCEPT ![c] = place]
    /\ frames' = [frames EXCEPT ![frame_of(c)] = EmptyFrame]
    /\ UNCHANGED outcome

\* The call of caller c returns or raises: its locals are dropped.
Leave(c, out) ==
    /\ pc' = [pc EXCEPT ![c] = "done"]
    /\ outcome' = [outcome EXCEPT ![c] = out]
    /\ frames' = [frames EXCEPT ![frame_of(c)] = EmptyFrame]

\* process up to its loops (lines 60-72): the early failures, or the empty
\* characters and tables.
ProcessBegin(c) ==
    /\ pc[c] = "idle"
    /\ \E f \in SharedFiles, column_index \in SharedColumns :
          LET args == [op |-> "process", source |-> f,
                       column_index |-> column_index]
          IN IF f.kind # "docx"
             THEN /\ call' = [call EXCEPT ![c] = args]
                  /\ Leave(c, process(f, column_index))
             ELSE Enter(c, args, "process_tables")
    /\ Overlap(c)
    /\ UNCHANGED saved
    /\ UNCHANGED sharedFrame

\* One iteration of "for table_idx, table in enumerate(document.tables)".
ProcessTable(c) ==
    /\ pc[c] = "process_tables"
    /\ LET fr == frames[frame_of(c)]
           doc == call[c].source.tables
       IN /\ fr.idx <= Len(doc)
          /\ LET r == row_loop(doc[fr.idx], call[c].column_index, 1,
                          [table_rows |-> <<>>, characters |-> fr.characters])
             IN frames' = [frames EXCEPT ![frame_of(c)] =
                    [fr EXCEPT !.idx = @ + 1,
                               !.characters = r.characters,
                               !.tables = append_table(@, r.table_rows)]]
    /\ Overlap(c)
    /\ UNCHANGED <<call, outcome, pc, saved>>
    /\ UNCHANGED sharedFrame

\* The end of process (lines 89-96).
ProcessReturn(c) ==
    /\ pc[c] = "process_tables"
    /\ LET fr == frames[frame_of(c)]
           fx == << "exists", "open" >>
       IN /\ fr.idx > Len(call[c].source.tables)
          /\ Leave(c, IF fr.characters = <<>>
                      THEN Raised("ValueError",
                              no_characters_message(call[c].column_index), fx)
                      ELSE Returned([characters |-> fr.characters,
                                     tables |-> fr.tables], fx))
    /\ Overlap(c)
    /\ UNCHANGED <<call, saved>>
    /\ UNCHANGED sharedFrame

\* get_table_preview up to its loop (lines 223-231).
PreviewBegin(c) ==
    /\ pc[c] = "idle"
    /\ \E f \in SharedFiles, max_rows \in SharedMaxRows :
          LET args == [op |-> "get_table_preview", source |-> f,
                       max_rows |-> max_rows]
          IN IF f.kind # "docx"
             THEN /\ call' = [call EXCEPT ![c] = args]
                  /\ Leave(c, get_table_preview(f, max_rows))
             ELSE Enter(c, args, "preview_tables")
    /\ Overlap(c)
    /\ UNCHANGED saved
    /\ UNCHANGED sharedFrame

\* One iteration of "for table in document.tables" (lines 233-238).
PreviewTable(c) ==
    /\ pc[c] = "preview_tables"
    /\ LET fr == frames[frame_of(c)]
           doc == call[c].source.tables
       IN /\ fr.idx <= Len(doc)
          /\ frames' = [frames EXCEPT ![frame_of(c)] =
                 [fr EXCEPT !.idx = @ + 1,
                            !.previews =
                               Append(@, table_preview(doc[fr.idx],
                                                       call[c].max_rows))]]
    /\ Overlap(c)
    /\ UNCHANGED <<call, outcome, pc, saved>>
    /\ UNCHANGED sharedFrame

\* return previews
PreviewReturn(c) ==
    /\ pc[c] = "preview_tables"
    /\ LET fr == frames[frame_of(c)]
       IN /\ fr.idx > Len(call[c].source.tables)
          /\ Leave(c, Returned(fr.previews, << "exists", "open" >>))
    /\ Overlap(c)
    /\ UNCHANGED <<call, saved>>
    /\ UNCHANGED sharedFrame

\* summarise up to its loop: the empty Counter and display_names.
SummariseBegin(c) ==
    /\ pc[c] = "idle"
    /\ \E characters \in SharedMentions, ignore_case \in BOOLEAN :
          Enter(c, [op |-> "summarise", characters |-> characters,
                    ignore_case |-> ignore_case], "summarise_names")
    /\ Overlap(c)
    /\ UNCHANGED saved
    /\ UNCHANGED sharedFrame

\* One mention of "for name in characters" (lines 116-123) or of the
\* generator given to Counter (line 131).
SummariseName(c) ==
    /\ pc[c] = "summarise_names"
    /\ LET fr == frames[frame_of(c)]
           name == call[c].characters[fr.idx]
           key == IF call[c].ignore_case THEN casefold(name) ELSE name
       IN /\ fr.idx <= Len(call[c].characters)
          /\ frames' = [frames EXCEPT ![frame_of(c)] =
                 IF name = <<>>
                 THEN [fr EXCEPT !.idx = @ + 1]
                 ELSE [fr EXCEPT !.idx = @ + 1,
                                 !.counts = counter_add(@, key),
                                 !.display_names = setdefault(@, key, name)]]
    /\ Overlap(c)
    /\ UNCHANGED <<call, outcome, pc, saved>>
    /\ UNCHANGED sharedFrame

\* The list built from counts.most_common() (lines 125-128, 132).
SummariseReturn(c) ==
    /\ pc[c] = "summarise_names"
    /\ LET fr == frames[frame_of(c)]
           common == most_common(fr.counts)
       IN /\ fr.idx > Len(call[c].characters)
          /\ Leave(c, Returned(
                 [i \in 1 .. Len(common) |->
                     CharacterStat(
                        IF call[c].ignore_case
                        THEN display_name(fr.display_names, common[i].key)
                        ELSE common[i].key,
                        common[i].count)], <<>>))
    /\ Overlap(c)
    /\ UNCHANGED <<call, saved>>
    /\ UNCHANGED sharedFrame

\* export_report up to the loop over the tables (lines 154-187).
ExportBegin(c) ==
    /\ pc[c] = "idle"
    /\ \E res \in SharedResults, minimum_mentions \in SharedMinimums :
          LET stats == filter_stats(summarise(res.characters, FALSE),
                                    minimum_mentions)
          IN /\ call' = [call EXCEPT ![c] =
                   [op |-> "export_report", result |-> res,
                    output_path |-> OutputPathOf(c),
                    minimum_mentions |-> minimum_mentions,
                    ignore_case |-> FALSE]]
             /\ frames' = [frames EXCEPT ![frame_of(c)] =
                   [EmptyFrame EXCEPT !.output_doc =
                       title_section
                       \o summary_section(res, stats, minimum_mentions)
                       \o frequency_section(stats)
                       \o (IF res.tables # <<>>
                           THEN << Heading([format |-> "Original Tables"], 2) >>
                           ELSE <<>>)]]
    /\ pc' = [pc EXCEPT ![c] = "export_tables"]
    /\ Overlap(c)
    /\ UNCHANGED <<outcome, saved>>
    /\ UNCHANGED sharedFrame

\* One iteration of "for idx, table in enumerate(result.tables, start=1)".
ExportTable(c) ==
    /\ pc[c] = "export_tables"
    /\ LET fr == frames[frame_of(c)]
           tables == call[c].result.tables
       IN /\ fr.idx <= Len(tables)
          /\ frames' = [frames EXCEPT ![frame_of(c)] =
                 [fr EXCEPT !.idx = @ + 1,
                            !.output_doc =
                               @ \o table_elements(fr.idx, tables[fr.idx])]]
    /\ Overlap(c)
    /\ UNCHANGED <<call, outcome, pc, saved>>
    /\ UNCHANGED sharedFrame

\* output_doc.save(output_path); return output_path (lines 209-210).
ExportSave(c) ==
    /\ pc[c] = "export_tables"
    /\ LET fr == frames[frame_of(c)]
           output_path == call[c].output_path
           err == save_error(output_path)
       IN /\ fr.idx > Len(call[c].result.tables)
          /\ IF err = ""
             THEN /\ saved' = Append(saved, [path |-> output_path,
                                             document |-> fr.output_doc])
                  /\ Leave(c, Returned(output_path, << "save" >>))
             ELSE /\ UNCHANGED saved
                  /\ Leave(c, save_failure(err, output_path))
    /\ Overlap(c)
    /\ UNCHANGED call
    /\ UNCHANGED sharedFrame

NextShared ==
    \/ \E c \in Callers : ProcessBegin(c)
    \/ \E c \in Callers : ProcessTable(c)
    \/ \E c \in Callers : ProcessReturn(c)
    \/ \E c \in Callers : PreviewBegin(c)
    \/ \E c \in Callers : PreviewTable(c)
    \/ \E c \in Callers : PreviewReturn(c)
    \/ \E c \in Callers : SummariseBegin(c)
    \/ \E c \in Callers : SummariseName(c)
    \/ \E c \in Callers : SummariseReturn(c)
    \/ \E c \in Callers : ExportBegin(c)
    \/ \E c \in Callers : ExportTable(c)
    \/ \E c \in Callers : ExportSave(c)

SpecShared == InitShared /\ [][NextShared]_vars

---------------------------------------------------------------------------
(* SimpleAuthManager.verify_api_key, reset_daily_usage and                 *)
(* APILimiter.check_rate_limit of app/auth.py.  Every call opens its own   *)
(* connection to the users database; a statement is one step, and other    *)
(* threads run between the SELECT and the UPDATE of verify_api_key.  The   *)
(* messages are in Russian; they are written here in Latin letters.        *)

Clients == 1 .. MaxClients

\* The users: user 1 is active, user 2 may be blocked.
UserIds == { 1, 2 }
ApiKeyOf(user_id) == IF user_id = 1 THEN "key-1" ELSE "key-2"
\* The keys a request presents: those of the users and an unknown one.
ApiKeys == { "key-1", "key-2", "key-0" }

\* The users tables at start-up: api_usage is 0 (the column's default).
UserTables ==
    { [u \in UserIds |->
          [api_key |-> ApiKeyOf(u),
           is_active |-> IF u = 1 THEN TRUE ELSE active,
           api_usage |-> 0,
           daily_limit |-> IF u = 1 THEN limit ELSE 1]] :
      limit \in 1 .. MaxDailyLimit, active \in BOOLEAN }

InvalidKeyError == "Nevernyi API klyuch"
BlockedError == "Akkaunt zablokirovan"
DailyLimitError == "Prevyshen dnevnoi limit zaprosov"
RateLimitError == "Prevyshen limit zaprosov"
UserNotFoundError == "Pol'zovatel' ne naiden"

Failure(error) == [success |-> FALSE, error |-> error]

\* The locals of a thread that serves no request, with what its last call
\* returned.
IdleFrame(returned) ==
    [op |-> "", user_id |-> 0, api_usage |-> 0, daily_limit |-> 0,
     returned |-> returned]

NoReturn == [success |-> FALSE, error |-> ""]

\* SELECT ... FROM users WHERE api_key = ?: the ids of the matching rows.
users_with_key(table, api_key) ==
    { u \in DOMAIN table : table[u].api_key = api_key }

InitAuth ==
    /\ file = NoFile
    /\ call = Idle
    /\ outcome = NoOutcome
    /\ effects = <<>>
    /\ result = NoResult
    /\ output_doc = <<>>
    /\ saved = <<>>
    /\ history = <<>>
    /\ db \in UserTables
    /\ granted = [u \in UserIds |-> 0]
    /\ pc = [c \in Clients |-> "idle"]
    /\ frames = [c \in Clients |-> IdleFrame(NoReturn)]

authFrame == <<file, call, outcome, effects, result, output_doc, saved,
               history>>

\* verify_api_key returns at once: no row, a blocked account, or the limit
\* reached in the row the SELECT has read.
VerifyReturn(c, error) ==
    /\ pc' = [pc EXCEPT ![c] = "idle"]
    /\ frames' = [frames EXCEPT ![c] = IdleFrame(Failure(error))]
    /\ UNCHANGED <<db, granted>>

\* verify_api_key from its SELECT to the test of the limit (lines 159-175).
VerifySelect(c) ==
    /\ pc[c] = "idle"
    /\ \E api_key \in ApiKeys :
          LET rows == users_with_key(db, api_key)
              user_id == CHOOSE u \in rows : TRUE
              user_row == db[user_id]
          IN IF rows = {}
             THEN VerifyReturn(c, InvalidKeyError)
             ELSE IF ~user_row.is_active
             THEN VerifyReturn(c, BlockedError)
             ELSE IF user_row.api_usage >= user_row.daily_limit
             THEN VerifyReturn(c, DailyLimitError)
             ELSE /\ pc' = [pc EXCEPT ![c] = "update"]
                  /\ frames' = [frames EXCEPT ![c] =
                        [op |-> "verify_api_key", user_id |-> user_id,
                         api_usage |-> user_row.api_usage,
                         daily_limit |-> user_row.daily_limit,
                         returned |-> NoReturn]]
                  /\ UNCHANGED <<db, granted>>
    /\ UNCHANGED authFrame

\* UPDATE users SET api_usage = api_usage + 1 WHERE id = ?, the commit and
\* the return of the success with the usage computed from the row read
\* earlier (lines 178-190).
VerifyUpdate(c) ==
    /\ pc[c] = "update"
    /\ LET user_id == frames[c].user_id
       IN /\ db' = [db EXCEPT ![user_id].api_usage = @ + 1]
          /\ granted' = [granted EXCEPT ![user_id] = @ + 1]
          /\ frames' = [frames EXCEPT ![c] =
                IdleFrame([success |-> TRUE,
                           user |-> [id |-> user_id,
                                     api_usage |-> frames[c].api_usage + 1,
                                     daily_limit |-> frames[c].daily_limit]])]
    /\ pc' = [pc EXCEPT ![c] = "idle"]
    /\ UNCHANGED authFrame

\* UPDATE users SET api_usage = 0, run by the reset thread at midnight; a
\* new day of granted requests begins.
ResetDailyUsage ==
    /\ db' = [u \in DOMAIN db |-> [db[u] EXCEPT !.api_usage = 0]]
    /\ granted' = [u \in UserIds |-> 0]
    /\ UNCHANGED <<pc, frames>>
    /\ UNCHANGED authFrame

\* APILimiter.check_rate_limit(user_id): one SELECT and the test.
CheckRateLimit(c) ==
    /\ pc[c] = "idle"
    /\ \E user_id \in UserIds \cup { 0 } :
          frames' = [frames EXCEPT ![c] = IdleFrame(
             IF user_id \notin DOMAIN db
             THEN Failure(UserNotFoundError)
             ELSE IF db[user_id].api_usage >= db[user_id].daily_limit
             THEN [success |-> FALSE, error |-> RateLimitError,
                   usage |-> db[user_id].api_usage,
                   limit |-> db[user_id].daily_limit]
             ELSE [success |-> TRUE, usage |-> db[user_id].api_usage,
                   limit |-> db[user_id].daily_limit])]
    /\ UNCHANGED <<pc, db, granted>>
    /\ UNCHANGED authFrame

NextAuth ==
    \/ \E c \in Clients : VerifySelect(c)
    \/ \E c \in Clients : VerifyUpdate(c)
    \/ \E c \in Clients : CheckRateLimit(c)
    \/ ResetDailyUsage

SpecAuth == InitAuth /\ [][NextAuth]_vars

---------------------------------------------------------------------------
(* What the claims on process and get_table_preview speak of.              *)

RECURSIVE Concat(_)
Concat(seqs) == IF seqs = <<>> THEN <<>> ELSE Head(seqs) \o Concat(Tail(seqs))

\* Every row of the document, in table order and then row order.
AllRows(doc) == Concat(doc)

\* The row has more than c cells and its trimmed cell c is not empty.
Qualifies(row, c) == Len(row) > c /\ strip(row[c + 1]) # <<>>

\* The trimmed cell c of every qualifying row, in table and then row order.
Mentions(doc, c) ==
    LET q == SelectSeq(AllRows(doc), LAMBDA row : Qualifies(row, c))
    IN [i \in 1 .. Len(q) |-> strip(q[i][c + 1])]

\* The snapshot of one table: every row, as the trimmed texts of its cells.
Snapshot(rows) ==
    [rows |-> [r \in 1 .. Len(rows) |->
                  [j \in 1 .. Len(rows[r]) |-> strip(rows[r][j])]]]

Opened == \E i \in 1 .. Len(effects) : effects[i] = "open"

ProcessCalled == call.op = "process"
ProcessSucceeded == ProcessCalled /\ outcome.raised = ""
ReadableCall == ProcessCalled /\ file.kind = "docx" /\ call.column_index >= 0

NoEntitiesRaised ==
    /\ outcome.raised = "ValueError"
    /\ outcome.message.format = NoCharactersFormat

\* C1: whenever process succeeds, its column index is not negative and the
\* returned characters are exactly the trimmed texts of cell c of the rows
\* that have more than c cells and a non-empty trimmed cell c, in table
\* order and then row order.
C1_CharactersAreTheQualifyingCells ==
    ProcessSucceeded =>
        /\ call.column_index >= 0
        /\ outcome.value.characters = Mentions(file.tables, call.column_index)

\* A success over two tables whose rows give two different mentions, one of
\* them trimmed, with a row that gives none.
C1_Witness ==
    /\ ProcessSucceeded
    /\ Len(file.tables) = 2
    /\ outcome.value.characters = << <<"a">>, <<"b">> >>
    /\ Len(AllRows(file.tables)) > 2

\* C2: on a readable document with column index c >= 0, process fails with
\* the no-entities error exactly when no row has more than c cells with a
\* non-empty trimmed cell c; then nothing is returned and the message holds
\* the column number c + 1.
C2_NoEntitiesIffNoQualifyingCell ==
    ReadableCall =>
        /\ NoEntitiesRaised <=>
              (\A t \in 1 .. Len(file.tables) :
                  \A r \in 1 .. Len(file.tables[t]) :
                      ~Qualifies(file.tables[t][r], call.column_index))
        /\ NoEntitiesRaised =>
              /\ outcome.value = <<>>
              /\ outcome.message.human_column = call.column_index + 1

\* The no-entities error on a document that has rows with text, none of it
\* in the second column.
C2_Witness ==
    /\ ReadableCall
    /\ NoEntitiesRaised
    /\ call.column_index = 1
    /\ \E t \in 1 .. Len(file.tables) :
          \E r \in 1 .. Len(file.tables[t]) :
              /\ Qualifies(file.tables[t][r], 0)
              /\ Len(file.tables[t][r]) = 2

\* C3: whenever process succeeds, the returned tables are one snapshot per
\* table of the document, in document order, each holding every row as the
\* trimmed texts of its cells; and on a readable document with c >= 0 the
\* only failure is the no-entities error, whatever the widths of the rows.
C3_OneSnapshotPerTable ==
    /\ ProcessSucceeded =>
          /\ Len(outcome.value.tables) = Len(file.tables)
          /\ \A t \in 1 .. Len(file.tables) :
                outcome.value.tables[t] = Snapshot(file.tables[t])
    /\ ReadableCall => (outcome.raised = "" \/ NoEntitiesRaised)

\* A success on a document with a table that gives no mention and a ragged
\* table whose short row is in the snapshot.
C3_Witness ==
    /\ ProcessSucceeded
    /\ call.column_index = 1
    /\ \E t \in 1 .. Len(file.tables) :
          \A r \in 1 .. Len(file.tables[t]) : ~Qualifies(file.tables[t][r], 1)
    /\ \E t \in 1 .. Len(file.tables) :
          \E r \in 1 .. Len(file.tables[t]) :
              /\ Len(file.tables[t][r]) = 1
              /\ outcome.value.tables[t].rows[r] = << <<"b">> >>
              /\ \E q \in 1 .. Len(file.tables[t]) :
                    Qualifies(file.tables[t][q], 1)

\* C4: process called with a negative column index fails with ValueError
\* 'Column index cannot be negative' before any access to the file system,
\* whether or not a file exists at the source path.
C4_NegativeColumnFailsBeforeIO ==
    (ProcessCalled /\ call.column_index < 0) =>
        /\ outcome.raised = "ValueError"
        /\ outcome.message.format = NegativeColumnFormat
        /\ effects = <<>>

\* C5: whenever the loader, given the source by process called with a
\* non-negative column index, fails, process raises the ValueError 'Failed
\* to read document' that carries the cause; the loader's own exception is
\* not raised and nothing is returned.
C5_LoadFailureIsWrapped ==
    (ProcessCalled /\ call.column_index >= 0 /\ Opened /\ file.kind # "docx") =>
        /\ outcome.raised = "ValueError"
        /\ outcome.raised \notin LoaderErrors
        /\ outcome.message.format = FailedToReadFormat
        /\ outcome.message.e = file.cause
        /\ outcome.value = <<>>

\* process on a file the loader rejects as a bad archive.
C5_Witness ==
    /\ ProcessCalled
    /\ call.column_index = 1
    /\ file.kind = "corrupt"
    /\ file.cause = "BadZipFile"
    /\ Opened
    /\ outcome.message.e = "BadZipFile"

---------------------------------------------------------------------------
(* What the claims on summarise speak of.                                  *)

SummariseCalled == call.op = "summarise"

\* The grouping key of a mention in the case mode of the call.
KeyOf(name) == IF call.ignore_case THEN casefold(name) ELSE name

\* The mention is neither empty nor whitespace-only.
NonBlank(name) == strip(name) # <<>>

\* The positions of the mentions with the key k, and of the non-blank ones.
Occurrences(k) ==
    { n \in 1 .. Len(call.characters) : KeyOf(call.characters[n]) = k }
NonBlankOccurrences(k) ==
    { n \in Occurrences(k) : NonBlank(call.characters[n]) }

Least(S) == CHOOSE n \in S : \A m \in S : n <= m

NonBlankKeys ==
    { KeyOf(call.characters[n]) :
        n \in { m \in 1 .. Len(call.characters) :
                  NonBlank(call.characters[m]) } }

\* One stat per key of the non-blank mentions, counting the mentions of the
\* key and named by the first of them.
OneStatPerNonBlankKey ==
    LET out == outcome.value
    IN /\ Len(out) = Cardinality(NonBlankKeys)
       /\ \A k \in NonBlankKeys :
             \E i \in 1 .. Len(out) :
                /\ KeyOf(out[i].name) = k
                /\ out[i].count = Cardinality(NonBlankOccurrences(k))
                /\ out[i].name = call.characters[Least(NonBlankOccurrences(k))]

\* C7: in both case modes the returned list is ordered by non-increasing
\* count, and two stats of equal count stand in the order in which their
\* keys first occur in the mentions.
C7_DescendingCountThenFirstOccurrence ==
    SummariseCalled =>
        LET out == outcome.value
        IN \A i, j \in 1 .. Len(out) :
              i < j =>
                 /\ out[i].count >= out[j].count
                 /\ out[i].count = out[j].count =>
                       Least(Occurrences(KeyOf(out[i].name)))
                          < Least(Occurrences(KeyOf(out[j].name)))

\* Two folded keys of equal count, returned in the order of first occurrence
\* and not in alphabetical order, ahead of a key of smaller count.
C7_Witness ==
    /\ SummariseCalled
    /\ call.ignore_case
    /\ Len(outcome.value) = 3
    /\ outcome.value[1] = CharacterStat(<<"b">>, 2)
    /\ outcome.value[2] = CharacterStat(<<"A">>, 2)
    /\ outcome.value[3].count = 1

\* C8: with ignore_case = true summarise returns exactly one stat per
\* case-folded key of the non-blank mentions, with the number of mentions of
\* that key as count and the first mention of that key as name.
C8_OneStatPerFoldedKey ==
    (SummariseCalled /\ call.ignore_case) => OneStatPerNonBlankKey

\* C9: with ignore_case = false summarise returns exactly one stat per
\* distinct non-blank string, named by that string, with its number of
\* occurrences as count.
C9_OneStatPerExactString ==
    (SummariseCalled /\ ~call.ignore_case) => OneStatPerNonBlankKey

\* C10: in both case modes no returned stat has an empty or whitespace-only
\* name, and an empty or whitespace-only mention adds to no stat's count.
C10_BlankMentionsExcluded ==
    SummariseCalled =>
        LET out == outcome.value
        IN \A i \in 1 .. Len(out) :
              /\ NonBlank(out[i].name)
              /\ out[i].count
                    = Cardinality(NonBlankOccurrences(KeyOf(out[i].name)))

RECURSIVE SumCounts(_)
SumCounts(stats) ==
    IF stats = <<>> THEN 0 ELSE Head(stats).count + SumCounts(Tail(stats))

\* C11: in both case modes the counts of the returned stats add up to the
\* number of mentions that are neither empty nor whitespace-only, and every
\* count is at least 1.
C11_CountsSumToNonBlankMentions ==
    (SummariseCalled /\ outcome.raised = "") =>
        /\ SumCounts(outcome.value)
              = Cardinality({ n \in 1 .. Len(call.characters) :
                                 NonBlank(call.characters[n]) })
        /\ \A i \in 1 .. Len(outcome.value) : outcome.value[i].count >= 1

\* C12: summarise applied to the empty sequence returns the empty list in
\* both case modes, and summarise raises nothing on any sequence of strings.
C12_EmptyInEmptyOutNeverFails ==
    SummariseCalled =>
        /\ outcome.raised = ""
        /\ call.characters = <<>> => outcome.value = <<>>

\* summarise of the empty sequence with ignore_case, returning the empty list.
C12_Witness ==
    /\ SummariseCalled
    /\ call.characters = <<>>
    /\ call.ignore_case
    /\ outcome.raised = ""
    /\ outcome.value = <<>>

---------------------------------------------------------------------------
(* What the claims on export_report speak of.                              *)

ExportCalled == call.op = "export_report"

\* The paths the save can write.
WritablePaths == { "report.docx", "copy.docx" }

\* The aggregate of the result's mentions in the case mode of the call, and
\* the positions in it of the stats that pass the filter.
AllStats == summarise(result.characters, call.ignore_case)
PassingIdx ==
    { i \in 1 .. Len(AllStats) : AllStats[i].count >= call.minimum_mentions }

\* The k-th smallest member of a set of numbers.
Nth(S, k) == CHOOSE n \in S : Cardinality({ m \in S : m < n }) = k - 1

IsHeading(e, fmt) == e.kind = "heading" /\ e.text.format = fmt
IsLabel(e) == IsHeading(e, "Table {idx}")
IsTable(e) == e.kind = "table"
IsLine(e, fmt) ==
    e.kind = "paragraph" /\ Len(e.runs) = 1 /\ e.runs[1].text.format = fmt
IsNotice(e) == IsLine(e, NoticeFormat)
IsSummary(e) == IsLine(e, SummaryFormat)
\* A paragraph reading "{name} <U+2014> {count} mentions".
IsStatLine(e) ==
    /\ e.kind = "paragraph"
    /\ Len(e.runs) = 2
    /\ e.runs[1].text.format = StatNameFormat
    /\ e.runs[2].text.format = StatCountFormat

Positions(doc, P(_)) == { i \in 1 .. Len(doc) : P(doc[i]) }

\* The elements of the characters-by-frequency section: those behind its
\* heading, up to the next heading of the same level.
FrequencySection(doc) ==
    LET at == { i \in 1 .. Len(doc) :
                   IsHeading(doc[i], "Characters by Frequency") }
        start == CHOOSE i \in at : TRUE
        later == { j \in start + 1 .. Len(doc) :
                      doc[j].kind = "heading" /\ doc[j].level <= 2 }
        stop == IF later = {} THEN Len(doc) + 1
                ELSE CHOOSE j \in later : \A k \in later : j <= k
    IN IF at = {} THEN <<>> ELSE SubSeq(doc, start + 1, stop - 1)

\* The title, the summary and the characters-by-frequency heading are there.
HasFixedSections(doc) ==
    /\ Len(doc) >= 4
    /\ doc[1].kind = "heading" /\ doc[1].level = 1
    /\ IsHeading(doc[2], "Summary")
    /\ IsSummary(doc[3])
    /\ IsHeading(doc[4], "Characters by Frequency")

\* C13: when minimum_mentions is higher than the count of every stat, the
\* report is still built whole, its characters-by-frequency section is the
\* notice alone, and on a writable path it is saved and nothing is raised;
\* when a stat passes the filter the report holds no notice.
C13_EmptyFilterGivesNotice ==
    ExportCalled =>
        /\ PassingIdx = {} =>
              /\ HasFixedSections(output_doc)
              /\ FrequencySection(output_doc) = << notice_paragraph >>
              /\ Positions(output_doc, IsStatLine) = {}
              /\ call.output_path \in WritablePaths =>
                    /\ outcome.raised = ""
                    /\ saved = << [path |-> call.output_path,
                                   document |-> output_doc] >>
        /\ PassingIdx # {} => Positions(output_doc, IsNotice) = {}

\* Two names of one mention each exported with minimum_mentions = 2.
C13_Witness ==
    /\ ExportCalled
    /\ call.minimum_mentions = 2
    /\ Len(AllStats) = 2
    /\ PassingIdx = {}
    /\ outcome.raised = ""
    /\ Len(saved) = 1
    /\ Positions(saved[1].document, IsNotice) # {}

\* C14: the stat lines of the report are those of the characters-by-
\* frequency section, one per stat of the aggregate whose count is at least
\* minimum_mentions, in the aggregate's order, each reading
\* "{name} <U+2014> {count} mentions" with the stat's name and count.
C14_OneLinePerPassingStat ==
    ExportCalled =>
        LET lines == SelectSeq(FrequencySection(output_doc), IsStatLine)
        IN /\ Len(lines) = Cardinality(PassingIdx)
           /\ Cardinality(Positions(output_doc, IsStatLine)) = Len(lines)
           /\ \A k \in 1 .. Len(lines) :
                 /\ lines[k].runs[1].text.name = AllStats[Nth(PassingIdx, k)].name
                 /\ lines[k].runs[2].text.count
                       = AllStats[Nth(PassingIdx, k)].count

\* Three stats of which the first two pass minimum_mentions = 2.
C14_Witness ==
    /\ ExportCalled
    /\ call.minimum_mentions = 2
    /\ Len(AllStats) = 3
    /\ PassingIdx = {1, 2}
    /\ Cardinality(Positions(output_doc, IsStatLine)) = 2

\* C15: the summary paragraph reports the number of mentions, the number of
\* unique names (the stats before filtering) and the number of names that
\* pass the minimum_mentions filter.
C15_SummaryReportsThreeCounts ==
    ExportCalled =>
        /\ IsSummary(output_doc[3])
        /\ output_doc[3].runs[1].text.total = Len(result.characters)
        /\ output_doc[3].runs[1].text.unique = Len(AllStats)
        /\ output_doc[3].runs[1].text.passing = Cardinality(PassingIdx)

\* The width of the widest row of a snapshot with rows.
Widest(rows) ==
    CHOOSE w \in 0 .. MaxResultSize + 1 :
        /\ \A i \in 1 .. Len(rows) : Len(rows[i]) <= w
        /\ \E i \in 1 .. Len(rows) : Len(rows[i]) = w

\* The positions in the report of the label of snapshot idx.
LabelsOf(doc, idx) ==
    { i \in 1 .. Len(doc) : IsLabel(doc[i]) /\ doc[i].text.idx = idx }

\* The table element at position i is the reconstruction of the rows: as
\* many rows, as many columns as the widest row, every cell of the snapshot
\* in its place and the other cells empty.
Reconstructs(doc, i, rows) ==
    /\ i <= Len(doc)
    /\ IsTable(doc[i])
    /\ doc[i].rows = Len(rows)
    /\ doc[i].cols = Widest(rows)
    /\ \A r \in 1 .. Len(rows) :
          /\ Len(doc[i].cells[r]) = Widest(rows)
          /\ \A j \in 1 .. Widest(rows) :
                doc[i].cells[r][j]
                   = IF j <= Len(rows[r]) THEN rows[r][j] ELSE <<>>

\* Nothing but a failed save makes export_report raise.
OnlyTheSaveFails ==
    call.output_path \in WritablePaths => outcome.raised = ""

LabelIdxs(doc) ==
    LET labels == SelectSeq(doc, IsLabel)
    IN [k \in 1 .. Len(labels) |-> labels[k].text.idx]

\* The positions of the snapshots that have rows, in increasing order.
WithRows ==
    LET S == { idx \in 1 .. Len(result.tables) :
                  result.tables[idx].rows # <<>> }
    IN [k \in 1 .. Cardinality(S) |-> Nth(S, k)]

SectionOf(e) ==
    CASE e.kind = "heading" /\ e.level = 1 -> 1
      [] IsHeading(e, "Summary") \/ IsSummary(e) -> 2
      [] IsHeading(e, "Characters by Frequency") \/ IsStatLine(e)
            \/ IsNotice(e) -> 3
      [] IsHeading(e, "Original Tables") \/ IsLabel(e) \/ IsTable(e) -> 4
      [] OTHER -> 0

\* C18: the elements of the report are added in the order title, summary,
\* characters by frequency, table reconstructions: the first three sections
\* are there, every element belongs to a section, and no element of a later
\* section stands before one of an earlier section.
C18_SectionsInFixedOrder ==
    ExportCalled =>
        /\ HasFixedSections(output_doc)
        /\ \A i \in 1 .. Len(output_doc) : SectionOf(output_doc[i]) # 0
        /\ \A i, j \in 1 .. Len(output_doc) :
              i < j => SectionOf(output_doc[i]) <= SectionOf(output_doc[j])
        /\ (\E i \in 1 .. Len(output_doc) : SectionOf(output_doc[i]) = 4)
              <=> result.tables # <<>>

\* A report with a stat line and a reconstructed table.
C18_Witness ==
    /\ ExportCalled
    /\ Positions(output_doc, IsStatLine) # {}
    /\ Positions(output_doc, IsTable) # {}
    /\ IsTable(output_doc[Len(output_doc)])

\* C19: on success export_report has saved once, to the output path it was
\* given, the document with every section and table added, and it returns
\* that path.
C19_SavedOnceWholeToThePath ==
    (ExportCalled /\ outcome.raised = "") =>
        /\ effects = << "save" >>
        /\ saved = << [path |-> call.output_path, document |-> output_doc] >>
        /\ outcome.value = call.output_path
        /\ HasFixedSections(output_doc)
        /\ LabelIdxs(output_doc) = WithRows

\* A report with a table saved to the second writable path.
C19_Witness ==
    /\ ExportCalled
    /\ call.output_path = "copy.docx"
    /\ outcome.raised = ""
    /\ Len(saved) = 1
    /\ saved[1].path = "copy.docx"
    /\ Positions(saved[1].document, IsTable) # {}

\* C20 as claimed: when the save fails, export_report fails with
\* ReportWriteError carrying the path and the cause, nothing is returned and
\* the save is not tried again.
C20_SaveFailureIsReportWriteError ==
    (ExportCalled /\ call.output_path \notin WritablePaths) =>
        /\ outcome.raised = "ReportWriteError"
        /\ outcome.message.filename = call.output_path
        /\ outcome.value = <<>>
        /\ effects = << "save" >>

\* C20 as amended: when the save fails, export_report fails with the OSError
\* the save raised (PermissionError, FileNotFoundError), which carries the
\* path; nothing is returned, nothing is written and the save is not tried
\* again.
C20_SaveFailureReachesTheCaller ==
    (ExportCalled /\ call.output_path \notin WritablePaths) =>
        /\ outcome.raised \in { "PermissionError", "FileNotFoundError" }
        /\ outcome.message.filename = call.output_path
        /\ outcome.value = <<>>
        /\ saved = <<>>
        /\ effects = << "save" >>

\* An export to a path whose directory does not exist.
C20_Witness ==
    /\ ExportCalled
    /\ call.output_path = "missing/report.docx"
    /\ outcome.raised = "FileNotFoundError"
    /\ result.tables # <<>>
    /\ saved = <<>>

---------------------------------------------------------------------------
(* Further claims on process and get_table_preview.                        *)

PreviewCalled == call.op = "get_table_preview"

Min(a, b) == IF a < b THEN a ELSE b

\* C21: on a readable document get_table_preview, which takes max_rows and
\* no column, raises nothing and returns one entry per table in document
\* order; the entry of a table with n rows is its first min(n, max_rows)
\* rows in row order, each as the trimmed texts of all its cells.
C21_PreviewIsTheFirstRowsOfEveryTable ==
    (PreviewCalled /\ file.kind = "docx") =>
        /\ DOMAIN call = { "op", "max_rows" }
        /\ call.max_rows >= 0
        /\ outcome.raised = ""
        /\ Len(outcome.value) = Len(file.tables)
        /\ \A t \in 1 .. Len(file.tables) :
              LET k == Min(Len(file.tables[t]), call.max_rows)
              IN /\ Len(outcome.value[t]) = k
                 /\ \A r \in 1 .. k :
                       outcome.value[t][r] = Snapshot(file.tables[t]).rows[r]

\* A preview of two rows per table of a table of three rows and a table of
\* one row, with a cell that is trimmed.
C21_Witness ==
    /\ PreviewCalled
    /\ file.kind = "docx"
    /\ call.max_rows = 2
    /\ Len(file.tables) = 2
    /\ Len(file.tables[1]) = 3
    /\ Len(file.tables[2]) = 1
    /\ Len(outcome.value[1]) = 2
    /\ outcome.value[2] = << << <<"a">> >> >>

\* C24: a call of process or get_table_preview, whether it returns or
\* raises, leaves the tables, rows and cell texts of the source document as
\* they were.
C24_SourceIsOnlyRead ==
    [][call'.op \in { "process", "get_table_preview" } => file' = file]_vars

\* process has failed with the no-entities error on a document that still
\* holds a cell with text to trim.
C24_Witness ==
    /\ ProcessCalled
    /\ NoEntitiesRaised
    /\ \E t \in 1 .. Len(file.tables) :
          \E r \in 1 .. Len(file.tables[t]) :
             \E j \in 1 .. Len(file.tables[t][r]) :
                file.tables[t][r][j] = <<" ", "a", " ">>

\* The cell c of the snapshot rows that have more than c cells and a
\* non-empty cell c, in table and then row order.
MentionsOfSnapshots(tables, c) ==
    LET rows == Concat([t \in 1 .. Len(tables) |-> tables[t].rows])
        q == SelectSeq(rows, LAMBDA row : Len(row) > c /\ row[c + 1] # <<>>)
    IN [i \in 1 .. Len(q) |-> q[i][c + 1]]

\* C25: in every result returned by process with column index c the
\* characters are the cells c taken from the returned tables, in table and
\* then row order, of the snapshot rows with more than c cells and a
\* non-empty cell c; they are not empty, and every mention is a non-empty
\* string without leading or trailing whitespace.
C25_CharactersAgreeWithTables ==
    ProcessSucceeded =>
        /\ outcome.value.characters
              = MentionsOfSnapshots(outcome.value.tables, call.column_index)
        /\ outcome.value.characters # <<>>
        /\ \A i \in 1 .. Len(outcome.value.characters) :
              /\ outcome.value.characters[i] # <<>>
              /\ strip(outcome.value.characters[i])
                    = outcome.value.characters[i]

\* A result whose one mention was trimmed, with a snapshot row whose cell c
\* is empty.
C25_Witness ==
    /\ ProcessSucceeded
    /\ call.column_index = 1
    /\ outcome.value.characters = << <<"a">> >>
    /\ \E t \in 1 .. Len(file.tables) :
          \E r \in 1 .. Len(file.tables[t]) :
             /\ Len(file.tables[t][r]) = 2
             /\ file.tables[t][r][2] = <<" ", "a", " ">>
    /\ \E t \in 1 .. Len(outcome.value.tables) :
          \E r \in 1 .. Len(outcome.value.tables[t].rows) :
             /\ Len(outcome.value.tables[t].rows[r]) = 2
             /\ outcome.value.tables[t].rows[r][2] = <<>>

---------------------------------------------------------------------------
(* Further claims on export_report.                                        *)

\* The stats the report lists, read from its stat lines in their order.
ListedStats ==
    LET lines == SelectSeq(output_doc, IsStatLine)
    IN [k \in 1 .. Len(lines) |->
           CharacterStat(lines[k].runs[1].text.name,
                         lines[k].runs[2].text.count)]

IsPrefix(s, t) == Len(s) <= Len(t) /\ s = SubSeq(t, 1, Len(s))

\* C26: the stats that pass the count >= minimum_mentions filter, those the
\* report lists, are a prefix of the list summarise returns, in unchanged
\* order, and no stat behind the prefix passes; minimum_mentions = 1 keeps
\* every stat, and a higher minimum_mentions keeps a prefix of what a lower
\* one keeps.
C26_FilteredStatsAreAPrefix ==
    ExportCalled =>
        /\ IsPrefix(ListedStats, AllStats)
        /\ ListedStats = filter_stats(AllStats, call.minimum_mentions)
        /\ PassingIdx = 1 .. Len(ListedStats)
        /\ call.minimum_mentions = 1 => ListedStats = AllStats
        /\ \A m \in call.minimum_mentions + 1 .. MaxMinimumMentions + 1 :
              IsPrefix(filter_stats(AllStats, m), ListedStats)

\* Three mentions of two folded names exported with minimum_mentions = 2:
\* the name of two mentions is listed, the name of one mention is not.
C26_Witness ==
    /\ ExportCalled
    /\ call.ignore_case
    /\ call.minimum_mentions = 2
    /\ Len(result.characters) = 3
    /\ Len(AllStats) = 2
    /\ Len(ListedStats) = 1
    /\ ListedStats[1].count = 2

\* C29: in every report a "Table N" label is present if and only if a
\* reconstructed table for that snapshot immediately follows it, and N is
\* the 1-based position of the snapshot among the tables of the result:
\* every label stands right ahead of the reconstruction of snapshot N, every
\* table stands right behind a label, and this for every snapshot shape,
\* a snapshot whose rows all have zero cells included.
C29_LabelIffTableFollows ==
    ExportCalled =>
        /\ \A i \in Positions(output_doc, IsLabel) :
              /\ output_doc[i].text.idx \in 1 .. Len(result.tables)
              /\ i < Len(output_doc)
              /\ IsTable(output_doc[i + 1])
              /\ Reconstructs(output_doc, i + 1,
                              result.tables[output_doc[i].text.idx].rows)
        /\ \A i \in Positions(output_doc, IsTable) :
              i > 1 /\ IsLabel(output_doc[i - 1])

---------------------------------------------------------------------------
(* Further claims on summarise, and the two DocumentProcessor variants.    *)

\* The two aggregates of the mentions of the call: the one the call
\* returned and the one of the other case mode.
FoldedStats ==
    IF call.ignore_case THEN outcome.value
    ELSE summarise(call.characters, TRUE)
ExactStats ==
    IF call.ignore_case THEN summarise(call.characters, FALSE)
    ELSE outcome.value

\* C27: the case-insensitive aggregate is a coarsening of the case-sensitive
\* one: each of its stats counts the sum of the counts of the case-sensitive
\* stats whose names case-fold to its key, the two aggregates have the same
\* total count, and the case-insensitive one never has more stats.
C27_FoldedAggregateCoarsensExact ==
    SummariseCalled =>
        /\ \A i \in 1 .. Len(FoldedStats) :
              FoldedStats[i].count
                 = SumCounts(SelectSeq(ExactStats,
                       LAMBDA stat :
                          casefold(stat.name) = casefold(FoldedStats[i].name)))
        /\ SumCounts(FoldedStats) = SumCounts(ExactStats)
        /\ Len(FoldedStats) <= Len(ExactStats)

\* A case-insensitive call on mentions of which two differ only in case:
\* three exact strings, two folded keys, the first counting two mentions.
C27_Witness ==
    /\ SummariseCalled
    /\ call.ignore_case
    /\ Len(ExactStats) = 3
    /\ Len(outcome.value) = 2
    /\ outcome.value[1].count = 2
    /\ \A i \in 1 .. 3 : ExactStats[i].count = 1

\* The call was repeated on the DocumentProcessor of app/processor.py.
ProcessorCalled == history # <<>> /\ history[1].module = "app.processor"

\* C28: the DocumentProcessor of app/processor.py is equivalent to that of
\* app/core_processor.py on extraction and aggregation: on an existing
\* readable document with column index c >= 0 both process return the same
\* characters and tables or both fail with the no-entities error of column
\* c + 1, and on every mention sequence and case mode both summarise return
\* the same list of stats.
C28_VariantsAreEquivalent ==
    ProcessorCalled =>
        LET other == history[1].outcome
        IN /\ (call.op = "process" /\ file.kind = "docx"
                  /\ call.column_index >= 0) =>
                 \/ /\ outcome.raised = ""
                    /\ other.raised = ""
                    /\ other.value = outcome.value
                 \/ /\ NoEntitiesRaised
                    /\ other.raised = "ValueError"
                    /\ other.message.format = ProcessorNoCharactersFormat
                    /\ other.message.human_column
                          = outcome.message.human_column
           /\ call.op = "summarise" =>
                 /\ other.raised = outcome.raised
                 /\ other.value = outcome.value

---------------------------------------------------------------------------
(* What the claim on repeated aggregation speaks of.                       *)

---------------------------------------------------------------------------
(* What the claim on the shared processor speaks of.                       *)

\* What the call returns or raises when it is run alone.
Alone(k) ==
    CASE k.op = "process" -> process(k.source, k.column_index)
      [] k.op = "get_table_preview" -> get_table_preview(k.source, k.max_rows)
      [] k.op = "summarise" -> summarise_call(k.characters, k.ignore_case)
      [] k.op = "export_report" ->
            export_report(k.result, k.output_path, k.minimum_mentions,
                          k.ignore_case).outcome

\* The documents saved to the path, in the order of the saves.
SavedTo(output_path) == SelectSeq(saved, LAMBDA w : w.path = output_path)

\* C23: whatever the interleaving of the process, summarise, export_report
\* and get_table_preview calls of the callers of one processor, each on its
\* own document and output path, every call returns or raises what it does
\* when run alone, and a successful export_report has saved to its path the
\* document it saves when run alone.
C23_CallsOnASharedProcessorAreIndependent ==
    \A c \in Callers :
        pc[c] = "done" =>
            /\ outcome[c] = Alone(call[c])
            /\ call[c].op = "export_report" =>
                  SavedTo(call[c].output_path)
                     = export_report(call[c].result, call[c].output_path,
                                     call[c].minimum_mentions,
                                     call[c].ignore_case).saved

\* A process call and an export_report call that ran side by side, each
\* taking steps while the other was in progress, and both succeeded.
C23_Witness ==
    /\ pc[1] = "done" /\ pc[2] = "done"
    /\ history[1] /\ history[2]
    /\ call[1].op = "process"
    /\ outcome[1].raised = ""
    /\ Len(outcome[1].value.characters) = 2
    /\ call[2].op = "export_report"
    /\ outcome[2].raised = ""
    /\ Len(SavedTo("copy.docx")) = 1
    /\ Positions(saved[1].document, IsTable) # {}

---------------------------------------------------------------------------
(* What the claim on the daily limit speaks of.                            *)

\* C30: for every user, whatever the interleaving of the verify_api_key
\* calls since the last reset_daily_usage, the stored api_usage does not
\* exceed daily_limit and at most daily_limit calls have returned success;
\* a call that fails with the limit-exceeded error has left api_usage alone.
C30_UsageNeverExceedsDailyLimit ==
    \A u \in DOMAIN db :
        /\ db[u].api_usage <= db[u].daily_limit
        /\ granted[u] <= db[u].daily_limit

===========================================================================
